---- MODULE Spec2Model ----
(***************************************************************************)
(* Model of the client-side core of the Contentstack DXP demo:             *)
(*   - the session/event tracker        (src/lib/analytics.ts)             *)
(*   - the personalization resolver     (src/lib/personalize.ts)           *)
(*   - the automation log               (lib/automate, unnamed/part_002)   *)
(*   - the content delivery client and the useEntries hook                 *)
(*                       (src/lib/contentstack.ts, src/hooks/useContent.ts)*)
(*   - attribute detection and the useVariant hook                         *)
(*                       (src/lib/personalize.ts, src/hooks/usePersonalize.ts)*)
(* Each component has its own specification (SpecTracker, SpecResolver,    *)
(* SpecLog, SpecContent, SpecCaller, SpecVariant): the tracker, the log    *)
(* and the content client share no state in the source; SpecCaller and     *)
(* SpecVariant run the resolver together with one of its callers.          *)
(***************************************************************************)
EXTENDS Integers, Sequences, FiniteSets, TLC

VARIABLES
  \* ---- tracker (AnalyticsManager) ----
  now,            \* Date.now(), a coarse wall clock
  slot,           \* sessionStorage['cs_analytics_session']: {} or {serialized}
  session,        \* AnalyticsManager.session
  eventQueue,     \* AnalyticsManager.eventQueue
  timerActive,    \* the setInterval started by startFlushInterval still runs
  calls,          \* track* calls made on this tracker instance
  viewCalls,      \* trackContentView calls made on this tracker instance
  restored,       \* what initSession returned at construction (sizes only)
  flushedCalls,   \* track* calls made on this instance before its latest flush
  handedOver,     \* the latest non-empty queue a flush passed on
  \* ---- resolver (PersonalizeManager) ----
  initialized,    \* PersonalizeManager.initialized
  projectUid,     \* PersonalizeManager.projectUid
  userAttributes, \* PersonalizeManager.userAttributes: attribute name -> value
  variantCache,   \* PersonalizeManager.variantCache: experience key -> variant
  lastCall,       \* the latest call made on the resolver, with what it returned
  prevCall,       \* the call made on the resolver before that one
  \* ---- automation log (AutomationLogger) ----
  logs,           \* AutomationLogger.logs, most recent first
  listeners,      \* AutomationLogger.listeners
  disposers,      \* the listeners that hold a disposer returned by subscribe
  lastNotified,   \* the latest notifyListeners(): who was called, with what
  added,          \* addLog calls since construction or the last clearLogs
  \* ---- content delivery client and useEntries ----
  apiKey,         \* VITE_CONTENTSTACK_API_KEY || ''
  deliveryToken,  \* VITE_CONTENTSTACK_DELIVERY_TOKEN || ''
  data,           \* useEntries: data
  loading,        \* useEntries: loading
  error,          \* useEntries: error, {} for null
  mounted,        \* useEntries: the mount effect has run
  pending,        \* the calls awaiting their promise: id -> call
  fetchSeq,       \* calls started so far
  httpRequests,   \* HTTP requests issued so far
  settled,        \* the latest step of a call: its start, or what it returned
  \* ---- attribute detection (detectUserAttributes) ----
  visitMarker,    \* localStorage['cs_returning_user']: {} or {value}
  detected,       \* the userType reported by each detectUserAttributes call
  \* ---- a caller of getUserAttributes ----
  arrayHeap,      \* the string[] values in memory: reference -> elements
  returnedAttrs,  \* the object the caller got from getUserAttributes: {} or {obj}
  \* ---- useVariant ----
  hookVariant,    \* useVariant: variant, {} for null
  variantLoading, \* useVariant: loading
  variantPending, \* the getVariant promises the effect awaits: id -> outcome
  variantEffects, \* runs of the effect so far
  variantSettled, \* how the latest step of the hook ended
  unhandled,      \* a rejection left the effect's async function
  \* ---- workflow runner (AutomateDemo) ----
  steps,          \* AutomateDemo: the status of each workflow step
  isRunning,      \* AutomateDemo: isRunning
  currentStep,    \* AutomateDemo: currentStep
  intervals,      \* the running setInterval timers: id -> its closure's step
  intervalSeq,    \* timers started so far
  \* ---- application load (App, PersonalizedHero) ----
  loadStage,      \* each initializePersonalization() caller: how far it got
  heroAttributes, \* usePersonalization in PersonalizedHero: attributes, {} unset
  \* ---- view tracking (useContentTracking, createVisibilityTracker) ----
  tracked,        \* useContentTracking: tracked.current
  lastDeps,       \* useContentTracking: the arguments its effect last ran with
  currentBanner,  \* PersonalizedHero: currentBanner, {} for null
  hasTracked,     \* createVisibilityTracker: hasTracked of the callback
  visibilityViews,\* trackContentView calls made by the callback
  lastEntries     \* the entries the callback was last invoked with

trackerVars == <<now, slot, session, eventQueue, timerActive, calls, viewCalls,
                 restored, flushedCalls, handedOver>>

resolverVars == <<initialized, projectUid, userAttributes, variantCache, lastCall,
                  prevCall>>

logVars == <<logs, listeners, disposers, lastNotified, added>>

contentVars == <<apiKey, deliveryToken, data, loading, error, mounted, pending,
                 fetchSeq, httpRequests, settled>>

detectVars == <<visitMarker, detected>>

callerVars == <<arrayHeap, returnedAttrs>>

hookVars == <<hookVariant, variantLoading, variantPending, variantEffects, variantSettled,
              unhandled>>

workflowVars == <<steps, isRunning, currentStep, intervals, intervalSeq>>

loadVars == <<loadStage, heroAttributes>>

viewVars == <<tracked, lastDeps, currentBanner, hasTracked, visibilityViews,
             lastEntries>>

vars == <<trackerVars, resolverVars, logVars, contentVars, detectVars, callerVars,
          hookVars, workflowVars, loadVars, viewVars>>

\* What the actions of one component leave alone: the other components.
trackerFrame ==
  <<resolverVars, logVars, contentVars, detectVars, callerVars,
    hookVars, workflowVars, loadVars, viewVars>>

resolverFrame ==
  <<trackerVars, logVars, contentVars, detectVars, callerVars,
    hookVars, workflowVars, loadVars, viewVars>>

logFrame ==
  <<trackerVars, resolverVars, contentVars, detectVars, callerVars,
    hookVars, workflowVars, loadVars, viewVars>>

contentFrame ==
  <<trackerVars, resolverVars, logVars, detectVars, callerVars,
    hookVars, workflowVars, loadVars, viewVars>>

\* ------------------------------------------------------------------ bounds
MaxClock == 1
MaxEvents == 2
MaxAdds == 60
MaxFetches == 3
MaxDetects == 3
MaxArrayLen == 2
MaxEffects == 2
MaxRuns == 2

\* ------------------------------------------------------------ JSON values
\* An optional property holds {} when it is undefined and {v} when it is v.
Undefined == {}

Some(v) == {v}

\* The properties declared optional ("?:") in the event interfaces.
OptFields == {"variant", "contentUid", "metadata"}

\* Reading a property of an object: an absent property reads as undefined.
Get(obj, f) == IF f \in DOMAIN obj THEN obj[f] ELSE Undefined

\* JSON.stringify of one object: its members, name and value, without the
\* properties whose value is undefined.
StringifyObj(obj) ==
  {<<f, obj[f]>> : f \in {g \in DOMAIN obj : ~(g \in OptFields /\ obj[g] = Undefined)}}

\* JSON.parse of one object: a property for every member.
ParseObj(members) ==
  [f \in {m[1] : m \in members} |-> (CHOOSE m \in members : m[1] = f)[2]]

\* JSON.stringify(session): the events are serialized one by one.
JSONstringify(sess) ==
  [sessionId |-> sess.sessionId, startTime |-> sess.startTime,
   pageViews |-> sess.pageViews,
   events |-> [i \in DOMAIN sess.events |-> StringifyObj(sess.events[i])]]

\* JSON.parse of a serialized session.
JSONparse(text) ==
  [sessionId |-> text.sessionId, startTime |-> text.startTime,
   pageViews |-> text.pageViews,
   events |-> [i \in DOMAIN text.events |-> ParseObj(text.events[i])]]

\* ---------------------------------------------------------------- tracker
Rands == {"k3x9a2f"}

generateSessionId(t, r) == <<"session", t, r>>

\* saveSession(): sessionStorage.setItem('cs_analytics_session', JSON.stringify(session))
saveSession_skip(sess, old) == old

saveSession(sess, old) == {JSONstringify(sess)}

\* initSession(): the restored session, or a new one (which is stored).
NewSession(t, r) ==
  [sessionId |-> generateSessionId(t, r), startTime |-> t, pageViews |-> 0,
   events |-> <<>>]

initSession_alwaysNew(item, t, r) == NewSession(t, r)

initSession(item, t, r) ==
  IF item # {} THEN JSONparse(CHOOSE s \in item : TRUE) ELSE NewSession(t, r)

initSessionSlot(item, t, r) ==
  IF item # {} THEN item ELSE {JSONstringify(NewSession(t, r))}

\* new AnalyticsManager(): constructor, on every page load of the tab.
Construct(item, r) ==
  /\ session' = initSession(item, now, r)
  /\ slot' = initSessionSlot(item, now, r)
  /\ eventQueue' = <<>>
  /\ timerActive' = TRUE
  /\ calls' = 0
  /\ viewCalls' = 0
  /\ restored' = [events |-> Len(session'.events), pageViews |-> session'.pageViews]
  /\ flushedCalls' = 0
  /\ handedOver' = <<>>

TrackerInit ==
  /\ now = 0
  /\ \E r \in Rands :
       LET s == NewSession(0, r) IN
       /\ session = s
       /\ slot = {JSONstringify(s)}
  /\ eventQueue = <<>>
  /\ timerActive = TRUE
  /\ calls = 0
  /\ viewCalls = 0
  /\ restored = [events |-> 0, pageViews |-> 0]
  /\ flushedCalls = 0
  /\ handedOver = <<>>

Tick ==
  /\ now < MaxClock
  /\ now' = now + 1
  /\ UNCHANGED <<slot, session, eventQueue, timerActive, calls, viewCalls, restored, flushedCalls, handedOver>>
  /\ UNCHANGED trackerFrame

ContentViewEvent(contentType, entryUid, title, variant) ==
  [contentType |-> contentType, entryUid |-> entryUid, title |-> title,
   variant |-> variant, timestamp |-> now]

TrackContentView_noCount(contentType, entryUid, title, variant) ==
  LET event == ContentViewEvent(contentType, entryUid, title, variant) IN
  /\ Len(session.events) < MaxEvents
  /\ session' = [session EXCEPT !.events = Append(@, event)]
  /\ eventQueue' = Append(eventQueue, ("type" :> "content_view") @@ event)
  /\ slot' = saveSession(session', slot)
  /\ calls' = calls + 1
  /\ viewCalls' = viewCalls + 1
  /\ UNCHANGED <<now, timerActive, restored, flushedCalls, handedOver>>
  /\ UNCHANGED trackerFrame

\* What trackContentView does to the tracker ...
TrackContentViewBody(contentType, entryUid, title, variant) ==
  LET event == ContentViewEvent(contentType, entryUid, title, variant) IN
  /\ Len(session.events) < MaxEvents
  /\ session' = [session EXCEPT !.pageViews = @ + 1, !.events = Append(@, event)]
  /\ eventQueue' = Append(eventQueue, ("type" :> "content_view") @@ event)
  /\ slot' = saveSession(session', slot)
  /\ calls' = calls + 1
  /\ viewCalls' = viewCalls + 1
  /\ UNCHANGED <<now, timerActive, restored, flushedCalls, handedOver>>

\* ... called on its own.
TrackContentView(contentType, entryUid, title, variant) ==
  /\ TrackContentViewBody(contentType, entryUid, title, variant)
  /\ UNCHANGED trackerFrame

InteractionEvent(action, element, contentUid, metadata) ==
  [action |-> action, element |-> element, contentUid |-> contentUid,
   metadata |-> metadata, timestamp |-> now]

TrackInteraction_unshift(action, element, contentUid, metadata) ==
  LET event == InteractionEvent(action, element, contentUid, metadata) IN
  /\ Len(session.events) < MaxEvents
  /\ session' = [session EXCEPT !.events = <<event>> \o @]
  /\ eventQueue' = Append(eventQueue, ("type" :> "interaction") @@ event)
  /\ slot' = saveSession(session', slot)
  /\ calls' = calls + 1
  /\ UNCHANGED <<now, timerActive, viewCalls, restored, flushedCalls, handedOver>>
  /\ UNCHANGED trackerFrame

TrackInteraction(action, element, contentUid, metadata) ==
  LET event == InteractionEvent(action, element, contentUid, metadata) IN
  /\ Len(session.events) < MaxEvents
  /\ session' = [session EXCEPT !.events = Append(@, event)]
  /\ eventQueue' = Append(eventQueue, ("type" :> "interaction") @@ event)
  /\ slot' = saveSession(session', slot)
  /\ calls' = calls + 1
  /\ UNCHANGED <<now, timerActive, viewCalls, restored, flushedCalls, handedOver>>
  /\ UNCHANGED trackerFrame

PersonalizationEvent(experienceId, variantId, converted) ==
  [experienceId |-> experienceId, variantId |-> variantId,
   converted |-> converted, timestamp |-> now]

TrackPersonalization(experienceId, variantId, converted) ==
  LET event == PersonalizationEvent(experienceId, variantId, converted) IN
  /\ Len(session.events) < MaxEvents
  /\ session' = [session EXCEPT !.events = Append(@, event)]
  /\ eventQueue' = Append(eventQueue, ("type" :> "personalization") @@ event)
  /\ slot' = saveSession(session', slot)
  /\ calls' = calls + 1
  /\ UNCHANGED <<now, timerActive, viewCalls, restored, flushedCalls, handedOver>>
  /\ UNCHANGED trackerFrame

TrackCTAClick(ctaText, destination, contentUid) ==
  TrackInteraction("click", "cta", contentUid,
                   Some([ctaText |-> ctaText, destination |-> destination]))

TrackSearch(query, resultsCount) ==
  TrackInteraction("search", "search_bar", Undefined,
                   Some([query |-> query, resultsCount |-> resultsCount]))

\* flushEvents(): nothing happens on an empty queue; otherwise the queue is
\* what goes to the sink (its length is logged, the request that would carry
\* JSON.stringify(this.eventQueue) is commented out in the source) and the
\* queue is emptied.
flushEvents_keepsQueue(queue) == queue

flushEvents(queue) == IF Len(queue) = 0 THEN queue ELSE <<>>

flushBatch(queue, last) == IF Len(queue) = 0 THEN last ELSE queue

\* One tick of the 30 s interval started by startFlushInterval().
FlushTick ==
  /\ timerActive
  /\ eventQueue' = flushEvents(eventQueue)
  /\ handedOver' = flushBatch(eventQueue, handedOver)
  /\ flushedCalls' = calls
  /\ UNCHANGED <<now, slot, session, timerActive, calls, viewCalls, restored>>
  /\ UNCHANGED trackerFrame

\* clearInterval(this.flushInterval): the timer stops.
clearInterval_noop(active) == active

clearInterval(active) == FALSE

Destroy ==
  /\ timerActive' = clearInterval(timerActive)
  /\ eventQueue' = flushEvents(eventQueue)
  /\ handedOver' = flushBatch(eventQueue, handedOver)
  /\ flushedCalls' = calls
  /\ UNCHANGED <<now, slot, session, calls, viewCalls, restored>>
  /\ UNCHANGED trackerFrame

\* A reload of the page in the same tab: the module is evaluated again and a
\* new AnalyticsManager is constructed over the tab's sessionStorage.
Reload ==
  /\ \E r \in Rands : Construct(slot, r)
  /\ UNCHANGED now
  /\ UNCHANGED trackerFrame

\* The tab's storage is cleared from outside.
StorageClear ==
  /\ slot # {}
  /\ slot' = {}
  /\ UNCHANGED <<now, session, eventQueue, timerActive, calls, viewCalls, restored, flushedCalls, handedOver>>
  /\ UNCHANGED trackerFrame

TrackContentViewCall ==
  \E variant \in {Undefined, Some("variant_eu")} :
    TrackContentView("hero_banner", "blt1", "Hero", variant)

TrackInteractionCall ==
  TrackInteraction("click", "nav", Undefined, Undefined)

TrackPersonalizationCall ==
  \E converted \in BOOLEAN :
    TrackPersonalization("hero_experience", "variant_eu", converted)

TrackCTAClickCall ==
  \E contentUid \in {Undefined, Some("blt1")} :
    TrackCTAClick("Get Started", "/start", contentUid)

TrackSearchCall == TrackSearch("cms", 3)

TrackStep ==
  \/ TrackContentViewCall
  \/ TrackInteractionCall
  \/ TrackPersonalizationCall
  \/ TrackCTAClickCall
  \/ TrackSearchCall

TrackerNext ==
  \/ Tick
  \/ TrackContentViewCall
  \/ TrackInteractionCall
  \/ TrackPersonalizationCall
  \/ TrackCTAClickCall
  \/ TrackSearchCall
  \/ FlushTick
  \/ Destroy
  \/ Reload
  \/ StorageClear

\* getSessionStats(): {sessionId, duration, pageViews, totalEvents}
getSessionStats ==
  [sessionId |-> session.sessionId, duration |-> now - session.startTime,
   pageViews |-> session.pageViews, totalEvents |-> Len(session.events)]

\* --------------------------------------------------------------- resolver
ExperienceKeys == {"hero_experience", "cta_experience"}

\* The attribute mappings handed to setUserAttributes: any subset of the two
\* attributes the selection rule reads, each with a matching or another value.
AttributeInputs ==
  {<<>>} \cup
  {[userType |-> u] : u \in {"new", "returning"}} \cup
  {[location |-> l] : l \in {"EU", "US"}} \cup
  {[userType |-> u, location |-> l] : u \in {"new", "returning"}, l \in {"EU", "US"}}

\* import.meta.env.VITE_PERSONALIZE_PROJECT_UID || 'demo_project'
EnvProjectUids == {"", "blt_env_project"}

ConstructorProjectUid(env) == IF env # "" THEN env ELSE "demo_project"

NoCall == [op |-> "none", key |-> "", ret |-> "", hit |-> FALSE]

Call(op) == [op |-> op, key |-> "", ret |-> "", hit |-> FALSE]

ResolverInitWith(env) ==
  /\ initialized = FALSE
  /\ projectUid = ConstructorProjectUid(env)
  /\ userAttributes = <<>>
  /\ variantCache = <<>>
  /\ lastCall = NoCall
  /\ prevCall = NoCall

\* init(config?): config is {} (no config, or one without projectUid) or {uid}.
PersonalizeInit_reapplies(config) ==
  /\ initialized' = TRUE
  /\ projectUid' = IF config # {} THEN CHOOSE uid \in config : TRUE ELSE projectUid
  /\ lastCall' = Call("init")
  /\ prevCall' = lastCall
  /\ UNCHANGED <<userAttributes, variantCache>>
  /\ UNCHANGED resolverFrame

PersonalizeInit(config) ==
  /\ initialized' = TRUE
  /\ projectUid' = IF ~initialized /\ config # {}
                   THEN CHOOSE uid \in config : TRUE
                   ELSE projectUid
  /\ lastCall' = Call("init")
  /\ prevCall' = lastCall
  /\ UNCHANGED <<userAttributes, variantCache>>
  /\ UNCHANGED resolverFrame

\* { ...this.userAttributes, ...attributes }
MergeAttributes_replace(old, new) == new

MergeAttributes(old, new) ==
  [k \in DOMAIN old \cup DOMAIN new |-> IF k \in DOMAIN new THEN new[k] ELSE old[k]]

SetUserAttributes(attributes) ==
  /\ userAttributes' = MergeAttributes(userAttributes, attributes)
  /\ lastCall' = Call("setUserAttributes")
  /\ prevCall' = lastCall
  /\ UNCHANGED <<initialized, projectUid, variantCache>>
  /\ UNCHANGED resolverFrame

\* simulateVariantSelection(): userType first, then location.
simulateVariantSelection_locationFirst(attrs) ==
  IF "location" \in DOMAIN attrs /\ attrs.location = "EU" THEN "variant_eu"
  ELSE IF "userType" \in DOMAIN attrs /\ attrs.userType = "returning"
       THEN "variant_returning"
  ELSE "variant_default"

simulateVariantSelection_lowerCase(attrs) ==
  IF "userType" \in DOMAIN attrs /\ attrs.userType = "returning" THEN "variant_returning"
  ELSE IF "location" \in DOMAIN attrs /\ attrs.location = "eu" THEN "variant_eu"
  ELSE "variant_default"

simulateVariantSelection(attrs) ==
  IF "userType" \in DOMAIN attrs /\ attrs.userType = "returning" THEN "variant_returning"
  ELSE IF "location" \in DOMAIN attrs /\ attrs.location = "EU" THEN "variant_eu"
  ELSE "variant_default"

\* getVariant(key): what it returns ...
getVariantResult(cache, attrs, key) ==
  IF key \in DOMAIN cache THEN cache[key] ELSE simulateVariantSelection(attrs)

\* ... and the cache it leaves.
getVariantCache_storesDefault(cache, attrs, key) ==
  IF key \in DOMAIN cache THEN cache ELSE (key :> "variant_default") @@ cache

getVariantCache_reevaluates(cache, attrs, key) ==
  (key :> simulateVariantSelection(attrs)) @@ cache

getVariantCache(cache, attrs, key) ==
  IF key \in DOMAIN cache THEN cache
  ELSE (key :> simulateVariantSelection(attrs)) @@ cache

\* What getVariant(key) does to the resolver ...
GetVariantBody(key) ==
  /\ variantCache' = getVariantCache(variantCache, userAttributes, key)
  /\ lastCall' = [op |-> "getVariant", key |-> key,
                  ret |-> getVariantResult(variantCache, userAttributes, key),
                  hit |-> key \in DOMAIN variantCache]
  /\ prevCall' = lastCall
  /\ UNCHANGED <<initialized, projectUid, userAttributes>>

\* ... called on its own.
GetVariant(key) ==
  /\ GetVariantBody(key)
  /\ UNCHANGED resolverFrame

\* triggerEvent(name, data?): logs to the console only.
TriggerEvent ==
  /\ lastCall' = Call("triggerEvent")
  /\ prevCall' = lastCall
  /\ UNCHANGED <<initialized, projectUid, userAttributes, variantCache>>
  /\ UNCHANGED resolverFrame

ClearCache ==
  /\ variantCache' = <<>>
  /\ lastCall' = Call("clearCache")
  /\ prevCall' = lastCall
  /\ UNCHANGED <<initialized, projectUid, userAttributes>>
  /\ UNCHANGED resolverFrame

\* -------------------------------------------------------- view tracking
ViewInit ==
  /\ tracked = FALSE
  /\ lastDeps = {}
  /\ currentBanner = {}
  /\ hasTracked = FALSE
  /\ visibilityViews = 0
  /\ lastEntries = <<>>

\* ---- detectUserAttributes(): the visit marker is read, then set.
DetectInitWith(marker) ==
  /\ visitMarker = marker
  /\ detected = <<>>

\* userType: isReturning ? 'returning' : 'new', with
\* isReturning = localStorage.getItem('cs_returning_user') === 'true'
detectUserType_inverted(marker) == IF marker = {"true"} THEN "new" ELSE "returning"

detectUserType(marker) == IF marker = {"true"} THEN "returning" ELSE "new"

DetectUserAttributes ==
  /\ Len(detected) < MaxDetects
  /\ detected' = Append(detected, detectUserType(visitMarker))
  /\ visitMarker' = {"true"}
  /\ UNCHANGED <<trackerVars, resolverVars, logVars, contentVars, callerVars, hookVars,
               workflowVars, loadVars, viewVars>>

PersonalizeInitCall == \E config \in {{}, {"blt_config_project"}} : PersonalizeInit(config)

SetUserAttributesCall == \E attributes \in AttributeInputs : SetUserAttributes(attributes)

GetVariantCall == \E key \in ExperienceKeys : GetVariant(key)

ResolverNext ==
  \/ PersonalizeInitCall
  \/ SetUserAttributesCall
  \/ GetVariantCall
  \/ TriggerEvent
  \/ ClearCache
  \/ DetectUserAttributes

\* ---- callers of getUserAttributes(), and attribute values of type string[]
\* A string[] value is a reference to an array in memory: two objects that
\* hold the reference hold the same array.
ArrayRefs == {"array#1"}

\* setUserAttributes({ segments: ['vip'] })
ArrayAttributeInputs == {[segments |-> ref] : ref \in ArrayRefs}

CallerInit ==
  /\ arrayHeap = [ref \in ArrayRefs |-> <<"vip">>]
  /\ returnedAttrs = {}

\* The stored attributes as they read: an array reads as its elements.
storedAttributes ==
  [k \in DOMAIN userAttributes |->
     IF userAttributes[k] \in DOMAIN arrayHeap THEN arrayHeap[userAttributes[k]]
     ELSE userAttributes[k]]

\* getUserAttributes(): { ...this.userAttributes }, a new object with the
\* stored keys and values; a string[] value is copied as the reference.
GetUserAttributes ==
  /\ returnedAttrs' = {userAttributes}
  /\ lastCall' = Call("getUserAttributes")
  /\ prevCall' = lastCall
  /\ UNCHANGED <<initialized, projectUid, userAttributes, variantCache, arrayHeap>>
  /\ UNCHANGED <<trackerVars, logVars, contentVars, detectVars, hookVars,
               workflowVars, loadVars, viewVars>>

\* What a caller can do to the object it got: add, overwrite or delete a
\* property, or change an array-valued property in place.
MutateReturned ==
  /\ \E obj \in returnedAttrs :
       \/ /\ "injected" \notin DOMAIN obj
          /\ returnedAttrs' = {("injected" :> "x") @@ obj}
          /\ UNCHANGED arrayHeap
       \/ \E k \in DOMAIN obj :
            /\ obj[k] # "tampered"
            /\ returnedAttrs' = {[obj EXCEPT ![k] = "tampered"]}
            /\ UNCHANGED arrayHeap
       \/ \E k \in DOMAIN obj :
            /\ returnedAttrs' = {[j \in DOMAIN obj \ {k} |-> obj[j]]}
            /\ UNCHANGED arrayHeap
       \/ \E k \in DOMAIN obj :
            /\ obj[k] \in DOMAIN arrayHeap
            /\ Len(arrayHeap[obj[k]]) < MaxArrayLen
            /\ arrayHeap' = [arrayHeap EXCEPT ![obj[k]] = Append(@, "injected")]
            /\ UNCHANGED returnedAttrs
  /\ UNCHANGED <<trackerVars, resolverVars, logVars, contentVars, detectVars, hookVars,
               workflowVars, loadVars, viewVars>>

CallerNext ==
  \/ \E attributes \in AttributeInputs \cup ArrayAttributeInputs :
       SetUserAttributes(attributes)
  \/ GetVariantCall
  \/ GetUserAttributes
  \/ MutateReturned

\* ------------------------------------------------------------- useVariant
UseVariantInit ==
  /\ hookVariant = {}
  /\ variantLoading = TRUE
  /\ variantPending = <<>>
  /\ variantEffects = 0
  /\ variantSettled = "none"
  /\ unhandled = FALSE

\* The promise personalize.getVariant(experienceShortId) returned, as the
\* await in the effect finds it.
Resolved(v) == [kind |-> "resolved", value |-> v]

Rejected == [kind |-> "rejected", value |-> ""]

\* The effect, up to the await: setLoading(true), then the call.
UseVariantEffect(key) ==
  /\ variantEffects < MaxEffects
  /\ GetVariantBody(key)
  /\ variantEffects' = variantEffects + 1
  /\ variantLoading' = TRUE
  /\ variantPending' = (variantEffects' :> Resolved(lastCall'.ret)) @@ variantPending
  /\ variantSettled' = "awaiting"
  /\ UNCHANGED <<hookVariant, unhandled>>
  /\ UNCHANGED <<trackerVars, logVars, contentVars, detectVars, callerVars,
               workflowVars, loadVars, viewVars>>

\* The same with a resolution that throws. getVariant as written in
\* personalize.ts never does; the rejection is an input of the hook, which
\* handles it in its catch block.
UseVariantEffectRejected ==
  /\ variantEffects < MaxEffects
  /\ variantEffects' = variantEffects + 1
  /\ variantLoading' = TRUE
  /\ variantPending' = (variantEffects' :> Rejected) @@ variantPending
  /\ variantSettled' = "awaiting"
  /\ UNCHANGED <<hookVariant, unhandled>>
  /\ UNCHANGED <<trackerVars, resolverVars, logVars, contentVars, detectVars, callerVars,
               workflowVars, loadVars, viewVars>>

\* try { setVariant(v) } catch (error) { console.error(...); setVariant('default') }
settleVariant_noFallback(outcome, old) ==
  IF outcome.kind = "resolved" THEN {outcome.value} ELSE old

settleVariant(outcome, old) ==
  IF outcome.kind = "resolved" THEN {outcome.value} ELSE {"default"}

\* The catch block rethrows nothing.
rethrows(outcome) == FALSE

\* The effect after the await: try or catch, then finally { setLoading(false) }.
UseVariantSettle ==
  /\ \E id \in DOMAIN variantPending :
       /\ hookVariant' = settleVariant(variantPending[id], hookVariant)
       /\ unhandled' = (unhandled \/ rethrows(variantPending[id]))
       /\ variantLoading' = FALSE
       /\ variantSettled' = variantPending[id].kind
       /\ variantPending' = [j \in DOMAIN variantPending \ {id} |-> variantPending[j]]
  /\ UNCHANGED variantEffects
  /\ UNCHANGED <<trackerVars, resolverVars, logVars, contentVars, detectVars, callerVars,
               workflowVars, loadVars, viewVars>>

VariantNext ==
  \/ \E key \in ExperienceKeys : UseVariantEffect(key)
  \/ UseVariantEffectRejected
  \/ UseVariantSettle
  \/ SetUserAttributesCall

\* ------------------------------------------------------- application load
\* On the first commit the effects run child first and in the order of the
\* hooks: useVariant and usePersonalization of PersonalizedHero, then the
\* effect of App. What follows an await runs after all of them.
LoadInit ==
  /\ loadStage = [caller \in {"hero", "app"} |-> "unmounted"]
  /\ heroAttributes = {}

\* initializePersonalization() up to its await: personalize.init().
InitializePersonalization(caller) ==
  /\ loadStage[caller] = "unmounted"
  /\ loadStage' = [loadStage EXCEPT ![caller] = "awaiting"]
  /\ initialized' = TRUE
  /\ lastCall' = Call("init")
  /\ prevCall' = lastCall
  /\ UNCHANGED <<projectUid, userAttributes, variantCache, heroAttributes>>
  /\ UNCHANGED <<logVars, contentVars, detectVars, callerVars, hookVars, workflowVars,
                 viewVars>>

\* usePersonalization: the effect of PersonalizedHero, after that of useVariant.
UsePersonalizationEffect ==
  /\ variantEffects > 0
  /\ InitializePersonalization("hero")
  /\ UNCHANGED trackerVars

\* App: initializePersonalization(); analytics.trackContentView('app', ...).
AppEffect ==
  /\ loadStage["hero"] # "unmounted"
  /\ InitializePersonalization("app")
  /\ TrackContentViewBody("app", "main", "Contentstack DXP Demo", Undefined)

\* initializePersonalization() after its await: detectUserAttributes(), then
\* setUserAttributes(attributes).
InitializePersonalizationResume ==
  /\ loadStage["app"] # "unmounted"
  /\ \E caller \in DOMAIN loadStage :
       /\ loadStage[caller] = "awaiting"
       /\ loadStage' = [loadStage EXCEPT ![caller] = "detected"]
  /\ detected' = Append(detected, detectUserType(visitMarker))
  /\ visitMarker' = {"true"}
  /\ userAttributes' = MergeAttributes(userAttributes,
       [deviceType |-> "desktop", timezone |-> "Europe/Berlin", language |-> "en-US",
        userType |-> detectUserType(visitMarker), visitTime |-> "morning"])
  /\ lastCall' = Call("setUserAttributes")
  /\ prevCall' = lastCall
  /\ UNCHANGED <<initialized, projectUid, variantCache, heroAttributes>>
  /\ UNCHANGED <<trackerVars, logVars, contentVars, callerVars, hookVars, workflowVars,
                 viewVars>>

\* usePersonalization after its await: setAttributes(getUserAttributes()),
\* setInitialized(true).
UsePersonalizationSettle ==
  /\ loadStage["hero"] = "detected"
  /\ loadStage' = [loadStage EXCEPT !["hero"] = "settled"]
  /\ heroAttributes' = {userAttributes}
  /\ UNCHANGED <<trackerVars, resolverVars, logVars, contentVars, detectVars, callerVars,
                 hookVars, workflowVars, viewVars>>

\* Everything the first commit started has finished.
LoadComplete ==
  /\ loadStage = [hero |-> "settled", app |-> "detected"]
  /\ variantEffects > 0
  /\ DOMAIN variantPending = {}

\* After the load the visitor uses the page: the demo sets attributes, asks
\* for variants and clears the cache.
LoadNext ==
  \/ (variantEffects = 0 /\ UseVariantEffect("hero_experience"))
  \/ UsePersonalizationEffect
  \/ AppEffect
  \/ (loadStage["app"] # "unmounted" /\ UseVariantSettle)
  \/ InitializePersonalizationResume
  \/ UsePersonalizationSettle
  \/ (LoadComplete /\ SetUserAttributesCall)
  \/ (LoadComplete /\ GetVariantCall)
  \/ (LoadComplete /\ ClearCache)

\* ---- useContentTracking(contentType, entryUid, title, variant)
\* The arguments a component other than PersonalizedHero can pass on a render.
TrackingArgs ==
  [contentType : {"blog_post", "page"},
   entryUid : {"", "blt_post_1"},
   title : {"Post", "Post (edited)"},
   variant : {Undefined, Some("variant_default")}]

UseContentTrackingEffect_noRef(args) ==
  /\ lastDeps # {args}
  /\ lastDeps' = {args}
  /\ IF args.entryUid # ""
     THEN /\ TrackContentViewBody(args.contentType, args.entryUid, args.title,
                                  args.variant)
          /\ tracked' = TRUE
     ELSE UNCHANGED <<trackerVars, tracked>>
  /\ UNCHANGED <<currentBanner, hasTracked, visibilityViews, lastEntries>>
  /\ UNCHANGED <<resolverVars, logVars, contentVars, detectVars, callerVars, hookVars,
                 workflowVars, loadVars>>

\* The effect runs on mount and after a render whose arguments differ from
\* those of the previous run.
UseContentTrackingEffect(args) ==
  /\ lastDeps # {args}
  /\ lastDeps' = {args}
  /\ IF ~tracked /\ args.entryUid # ""
     THEN /\ TrackContentViewBody(args.contentType, args.entryUid, args.title,
                                  args.variant)
          /\ tracked' = TRUE
     ELSE UNCHANGED <<trackerVars, tracked>>
  /\ UNCHANGED <<currentBanner, hasTracked, visibilityViews, lastEntries>>
  /\ UNCHANGED <<resolverVars, logVars, contentVars, detectVars, callerVars, hookVars,
                 workflowVars, loadVars>>

\* ---- PersonalizedHero
\* heroBanners.find(variant_id === variant) || find(variant_default) || [0]
pickBanner(heroBanners, variant) ==
  LET find(v) == {i \in DOMAIN heroBanners : heroBanners[i].variant_id = v}
      first(S) == heroBanners[CHOOSE i \in S : \A j \in S : i <= j]
      match == UNION {find(v) : v \in variant}
  IN IF match # {} THEN first(match)
     ELSE IF find("variant_default") # {} THEN first(find("variant_default"))
     ELSE heroBanners[1]

\* The effect on [heroBanners, variant], once banners have arrived: the stack
\* holds one of three lists of hero banners.
SetCurrentBanner ==
  LET default == [uid |-> "blt_hero_1", title |-> "Welcome",
                  variant_id |-> "variant_default"]
      returning == [uid |-> "blt_hero_2", title |-> "Welcome back",
                    variant_id |-> "variant_returning"]
  IN
  /\ lastDeps # {}
  /\ \E heroBanners \in {<<default>>, <<returning, default>>, <<returning>>} :
       currentBanner' = {pickBanner(heroBanners, hookVariant)}
  /\ UNCHANGED <<tracked, lastDeps, hasTracked, visibilityViews, lastEntries>>
  /\ UNCHANGED <<trackerVars, resolverVars, logVars, contentVars, detectVars, callerVars,
                 hookVars, workflowVars, loadVars>>

\* currentBanner?.uid || 'loading', currentBanner?.title || 'Loading...',
\* variant || undefined
heroTrackingArgs ==
  [contentType |-> "hero_banner",
   entryUid |-> IF currentBanner = {} THEN "loading"
                ELSE (CHOOSE banner \in currentBanner : TRUE).uid,
   title |-> IF currentBanner = {} THEN "Loading..."
             ELSE (CHOOSE banner \in currentBanner : TRUE).title,
   variant |-> hookVariant]

\* ---- createVisibilityTracker(contentType, entryUid, title)
\* What an IntersectionObserver can hand over: isIntersecting of each entry.
EntryBatches ==
  {<<FALSE>>, <<TRUE>>, <<TRUE, TRUE>>, <<FALSE, TRUE>>, <<TRUE, FALSE, TRUE>>}

RECURSIVE visibilityTracks_flagNotSet(_, _)
visibilityTracks_flagNotSet(entries, flag) ==
  IF entries = <<>> THEN 0
  ELSE IF Head(entries) /\ ~flag
       THEN 1 + visibilityTracks_flagNotSet(Tail(entries), flag)
       ELSE visibilityTracks_flagNotSet(Tail(entries), flag)

\* entries.forEach(...): the trackContentView calls it makes, flag being
\* hasTracked before the entry.
RECURSIVE visibilityTracks(_, _)
visibilityTracks(entries, flag) ==
  IF entries = <<>> THEN 0
  ELSE IF Head(entries) /\ ~flag
       THEN 1 + visibilityTracks(Tail(entries), TRUE)
       ELSE visibilityTracks(Tail(entries), flag)

\* One invocation of the callback. The tracker takes the first call; the
\* count is that of all calls of the invocation.
VisibilityCallback(entries) ==
  LET n == visibilityTracks(entries, hasTracked) IN
  /\ lastEntries' = entries
  /\ visibilityViews' = visibilityViews + n
  /\ hasTracked' = (hasTracked \/ n > 0)
  /\ IF n > 0
     THEN TrackContentViewBody("hero_banner", "blt_hero_1", "Welcome", Undefined)
     ELSE UNCHANGED trackerVars
  /\ UNCHANGED <<tracked, lastDeps, currentBanner>>
  /\ UNCHANGED <<resolverVars, logVars, contentVars, detectVars, callerVars, hookVars,
                 workflowVars, loadVars>>

ViewNext ==
  \/ \E args \in TrackingArgs : UseContentTrackingEffect(args)
  \/ UseContentTrackingEffect(heroTrackingArgs)
  \/ SetCurrentBanner
  \/ (variantEffects = 0 /\ UseVariantEffect("hero_experience"))
  \/ UseVariantSettle
  \/ \E entries \in EntryBatches : VisibilityCallback(entries)

\* -------------------------------------------------------- workflow runner
workflowSteps == <<"trigger", "action_1", "action_2", "complete">>

WorkflowInit ==
  /\ steps = [i \in DOMAIN workflowSteps |-> "pending"]
  /\ isRunning = FALSE
  /\ currentStep = -1
  /\ intervals = <<>>
  /\ intervalSeq = 0

\* runWorkflow(): the timer it starts is kept in a local of the call only.
RunWorkflow ==
  /\ ~isRunning
  /\ intervalSeq < MaxRuns
  /\ isRunning' = TRUE
  /\ currentStep' = 0
  /\ steps' = [i \in DOMAIN workflowSteps |-> "pending"]
  /\ intervalSeq' = intervalSeq + 1
  /\ intervals' = (intervalSeq' :> 0) @@ intervals
  /\ UNCHANGED <<trackerVars, resolverVars, logVars, contentVars, detectVars, callerVars,
                 hookVars, loadVars, viewVars>>

ResetWorkflow ==
  /\ steps' = [i \in DOMAIN workflowSteps |-> "pending"]
  /\ currentStep' = -1
  /\ isRunning' = FALSE
  /\ UNCHANGED <<intervals, intervalSeq>>
  /\ UNCHANGED <<trackerVars, resolverVars, logVars, contentVars, detectVars, callerVars,
                 hookVars, loadVars, viewVars>>

\* status: i < step ? 'completed' : i === step ? 'active' : 'pending', with the
\* array indices of the source (from 0).
stepStatus(i, step) ==
  IF i < step THEN "completed" ELSE IF i = step THEN "active" ELSE "pending"

\* One run of the callback of a timer.
IntervalTick ==
  /\ \E id \in DOMAIN intervals :
       LET step == intervals[id] IN
       IF step >= Len(steps)
       THEN /\ intervals' = [j \in DOMAIN intervals \ {id} |-> intervals[j]]
            /\ isRunning' = FALSE
            /\ UNCHANGED <<steps, currentStep>>
       ELSE /\ steps' = [i \in DOMAIN steps |-> stepStatus(i - 1, step)]
            /\ currentStep' = step
            /\ intervals' = [intervals EXCEPT ![id] = step + 1]
            /\ UNCHANGED isRunning
  /\ UNCHANGED intervalSeq
  /\ UNCHANGED <<trackerVars, resolverVars, logVars, contentVars, detectVars, callerVars,
                 hookVars, loadVars, viewVars>>

WorkflowNext ==
  \/ RunWorkflow
  \/ ResetWorkflow
  \/ IntervalTick

\* ---------------------------------------------------------- automation log
maxLogs == 50

Listeners == {"onLogsA", "onLogsB"}

\* simulateAutomationEvent(eventType, contentTitle): the log it hands to addLog.
SimulatedLog(eventType, contentTitle) ==
  [automationName |-> <<"Simulated: ", eventType>>, trigger |-> eventType,
   status |-> "success", details |-> <<"Content: ", contentTitle>>]

\* The generated id (time and random suffix) is modelled by the number of the
\* addLog call since the list was last empty: it tells the entries apart and
\* orders them by age.
NewLog(log, n) ==
  [id |-> <<"log", n>>, automationName |-> log.automationName,
   trigger |-> log.trigger, status |-> log.status, details |-> log.details]

LogInit ==
  /\ logs = <<>>
  /\ listeners = {}
  /\ disposers = {}
  /\ lastNotified = [to |-> {}, logs |-> <<>>]
  /\ added = 0

\* this.logs.unshift(newLog); if (length > maxLogs) logs = logs.slice(0, maxLogs)
addLogList_keepsOldest(list, newLog) ==
  LET unshifted == <<newLog>> \o list IN
  IF Len(unshifted) > maxLogs
  THEN SubSeq(unshifted, Len(unshifted) - maxLogs + 1, Len(unshifted))
  ELSE unshifted

addLogList(list, newLog) ==
  LET unshifted == <<newLog>> \o list IN
  IF Len(unshifted) > maxLogs THEN SubSeq(unshifted, 1, maxLogs) ELSE unshifted

\* getLogs(): a copy of the list.
getLogs == logs

\* notifyListeners(): every listener is called with getLogs().
NotifyListeners_beforeChange ==
  lastNotified' = [to |-> listeners, logs |-> logs]

NotifyListeners ==
  lastNotified' = [to |-> listeners, logs |-> logs']

AddLog(log) ==
  /\ added < MaxAdds
  /\ logs' = addLogList(logs, NewLog(log, added + 1))
  /\ added' = added + 1
  /\ NotifyListeners
  /\ UNCHANGED <<listeners, disposers>>
  /\ UNCHANGED logFrame

Subscribe(listener) ==
  /\ listeners' = listeners \cup {listener}
  /\ disposers' = disposers \cup {listener}
  /\ UNCHANGED <<logs, lastNotified, added>>
  /\ UNCHANGED logFrame

\* The disposer returned by subscribe(listener).
Unsubscribe(listener) ==
  /\ listener \in disposers
  /\ listeners' = listeners \ {listener}
  /\ UNCHANGED <<logs, disposers, lastNotified, added>>
  /\ UNCHANGED logFrame

ClearLogs ==
  /\ logs' = <<>>
  /\ added' = 0
  /\ NotifyListeners
  /\ UNCHANGED <<listeners, disposers>>
  /\ UNCHANGED logFrame

SimulateAutomationEvent == AddLog(SimulatedLog("entry.publish", "Launch post"))

SubscribeCall == \E listener \in Listeners : Subscribe(listener)

UnsubscribeCall == \E listener \in Listeners : Unsubscribe(listener)

LogNext ==
  \/ SimulateAutomationEvent
  \/ SubscribeCall
  \/ UnsubscribeCall
  \/ ClearLogs

\* ------------------------------------------------- content delivery client
EntryA == [uid |-> "a", title |-> "T", url |-> "/a", variant_id |-> "variant_eu"]

EntryB == [uid |-> "b", title |-> "U", url |-> "/b", variant_id |-> "variant_default"]

EntryLists == {<<>>, <<EntryA>>, <<EntryB, EntryA>>}

ErrorBody == [error_message |-> "error"]

\* What the collaborator can answer to a request: a response with a status and
\* a JSON body, a response whose body is not JSON, or no response at all.
Responses ==
  {[kind |-> "response", status |-> 200, body |-> [entries |-> E]] : E \in EntryLists}
  \cup {[kind |-> "response", status |-> 200, body |-> [entry |-> EntryA]],
        [kind |-> "response", status |-> 200, body |-> ErrorBody],
        [kind |-> "response", status |-> 404, body |-> ErrorBody],
        [kind |-> "response", status |-> 500, body |-> ErrorBody],
        [kind |-> "response", status |-> 500, body |-> [entries |-> <<EntryA>>]],
        [kind |-> "badjson", status |-> 200, body |-> ErrorBody],
        [kind |-> "network", status |-> 0, body |-> ErrorBody]}

NoResponse == [kind |-> "none", status |-> 0, body |-> ErrorBody]

\* response.ok
ResponseOk(response) == response.status \in 200..299

\* Values of the client's promises.
Thrown == [kind |-> "throw"]

ApiNull == [kind |-> "null"]

ApiData(body) == [kind |-> "data", body |-> body]

RetNull == [kind |-> "null"]

RetList(list) == [kind |-> "list", value |-> list]

RetEntry(entry) == [kind |-> "entry", value |-> entry]

\* if (!apiKey || !deliveryToken)
MissingCredentials_keyOnly(key, token) == key = ""

MissingCredentials(key, token) == key = "" \/ token = ""

\* fetchFromAPI, the try block: fetch() rejects, or the response is not ok, or
\* response.json() rejects, or the parsed body is returned.
fetchFromAPITry(response) ==
  IF response.kind = "network" THEN Thrown
  ELSE IF ~ResponseOk(response) THEN Thrown
  ELSE IF response.kind = "badjson" THEN Thrown
  ELSE ApiData(response.body)

\* fetchFromAPI once the request is answered: the catch block returns null.
fetchFromAPI(response) ==
  LET r == fetchFromAPITry(response) IN
  IF r.kind = "throw" THEN ApiNull ELSE r

\* getEntries(contentType), given what fetchFromAPI gave.
getEntries_unguarded(api) ==
  IF api.kind = "data" /\ "entries" \in DOMAIN api.body
  THEN RetList(api.body.entries)
  ELSE Thrown

getEntries(api) ==
  IF api.kind = "throw" THEN RetList(<<>>)
  ELSE IF api.kind = "data" /\ "entries" \in DOMAIN api.body
       THEN RetList(api.body.entries)
  ELSE RetList(<<>>)

getEntryByUid(api) ==
  IF api.kind = "throw" THEN RetNull
  ELSE IF api.kind = "data" /\ "entry" \in DOMAIN api.body
       THEN RetEntry(api.body.entry)
  ELSE RetNull

queryEntries(api) ==
  IF api.kind = "throw" THEN RetList(<<>>)
  ELSE IF api.kind = "data" /\ "entries" \in DOMAIN api.body
       THEN RetList(api.body.entries)
  ELSE RetList(<<>>)

\* entries[0] || null
getEntryByUrl(api) ==
  LET entries == queryEntries(api) IN
  IF entries.kind = "throw" THEN RetNull
  ELSE IF Len(entries.value) > 0 THEN RetEntry(entries.value[1])
  ELSE RetNull

\* allBanners.find((b) => b.variant_id === variantId) || null
getHeroBannerByVariant(api, variantId) ==
  LET allBanners == getEntries(api) IN
  IF allBanners.kind = "throw" THEN RetNull
  ELSE LET found == {i \in DOMAIN allBanners.value :
                       /\ "variant_id" \in DOMAIN allBanners.value[i]
                       /\ allBanners.value[i].variant_id = variantId} IN
       IF found = {} THEN RetNull
       ELSE RetEntry(allBanners.value[CHOOSE i \in found : \A j \in found : i <= j])

\* What a call of the client returns, given what fetchFromAPI gave it.
\* useEntries awaits getEntries.
LibReturn(caller, arg, api) ==
  CASE caller = "useEntries" -> getEntries(api)
    [] caller = "getEntries" -> getEntries(api)
    [] caller = "getEntryByUid" -> getEntryByUid(api)
    [] caller = "queryEntries" -> queryEntries(api)
    [] caller = "getEntryByUrl" -> getEntryByUrl(api)
    [] caller = "getHeroBannerByVariant" -> getHeroBannerByVariant(api, arg)

\* The direct calls of the client that the model makes.
LibCalls ==
  {[caller |-> "getEntries", arg |-> "hero_banner"],
   [caller |-> "getEntryByUid", arg |-> "a"],
   [caller |-> "queryEntries", arg |-> "blog_post"],
   [caller |-> "getEntryByUrl", arg |-> "/a"],
   [caller |-> "getHeroBannerByVariant", arg |-> "variant_eu"],
   [caller |-> "getHeroBannerByVariant", arg |-> "variant_returning"]}

ContentInitWith(key, token) ==
  /\ apiKey = key
  /\ deliveryToken = token
  /\ data = <<>>
  /\ loading = TRUE
  /\ error = {}
  /\ mounted = FALSE
  /\ pending = <<>>
  /\ fetchSeq = 0
  /\ httpRequests = 0
  /\ settled = [op |-> "none", caller |-> "", arg |-> "", response |-> NoResponse,
                ret |-> RetNull]

\* A call of the client starts: fetchFromAPI returns null at once when the
\* credentials are missing, and issues the request otherwise; either way the
\* caller resumes later.
StartCall(caller, arg) ==
  /\ fetchSeq < MaxFetches
  /\ fetchSeq' = fetchSeq + 1
  /\ pending' = (fetchSeq + 1 :> [caller |-> caller, arg |-> arg,
                                  http |-> ~MissingCredentials(apiKey, deliveryToken)])
                @@ pending
  /\ httpRequests' = IF MissingCredentials(apiKey, deliveryToken)
                     THEN httpRequests ELSE httpRequests + 1
  /\ settled' = [op |-> "start", caller |-> caller, arg |-> arg,
                 response |-> NoResponse, ret |-> RetNull]
  /\ UNCHANGED <<apiKey, deliveryToken>>
  /\ UNCHANGED contentFrame

\* useEntries: fetchData() up to its await.
FetchData ==
  /\ loading' = TRUE
  /\ error' = {}
  /\ StartCall("useEntries", "blog_post")
  /\ UNCHANGED data

\* useEntries: useEffect(() => { fetchData() }, [fetchData]) on mount.
UseEntriesMount ==
  /\ ~mounted
  /\ mounted' = TRUE
  /\ FetchData

\* useEntries: refetch(), as from ContentDemo's handleRefresh.
Refetch ==
  /\ mounted
  /\ FetchData
  /\ UNCHANGED mounted

LibCall ==
  /\ \E call \in LibCalls : StartCall(call.caller, call.arg)
  /\ UNCHANGED <<data, loading, error, mounted>>

\* useEntries: fetchData() from its await on: setData or setError, then
\* setLoading(false).
UseEntriesSettle_staysLoading(ret) ==
  /\ IF ret.kind = "throw"
     THEN error' = {"Failed to fetch entries"} /\ data' = data
     ELSE data' = ret.value /\ error' = error
  /\ loading' = loading

UseEntriesSettle(ret) ==
  /\ IF ret.kind = "throw"
     THEN error' = {"Failed to fetch entries"} /\ data' = data
     ELSE data' = ret.value /\ error' = error
  /\ loading' = FALSE

\* The promise of call id resolves and its caller resumes.
Settle(id, api, response) ==
  LET call == pending[id]
      ret == LibReturn(call.caller, call.arg, api) IN
  /\ pending' = [i \in DOMAIN pending \ {id} |-> pending[i]]
  /\ settled' = [op |-> "settle", caller |-> call.caller, arg |-> call.arg,
                 response |-> response, ret |-> ret]
  /\ IF call.caller = "useEntries"
     THEN UseEntriesSettle(ret)
     ELSE UNCHANGED <<data, loading, error>>
  /\ UNCHANGED <<apiKey, deliveryToken, mounted, fetchSeq, httpRequests>>
  /\ UNCHANGED contentFrame

\* The collaborator answers the request of call id.
Respond ==
  \E id \in DOMAIN pending : \E response \in Responses :
    /\ pending[id].http
    /\ Settle(id, fetchFromAPI(response), response)

\* A call that issued no request resumes with fetchFromAPI's null.
ShortCircuit ==
  \E id \in DOMAIN pending :
    /\ ~pending[id].http
    /\ Settle(id, ApiNull, NoResponse)

ContentNext ==
  \/ UseEntriesMount
  \/ Refetch
  \/ LibCall
  \/ Respond
  \/ ShortCircuit

\* ---------------------------------------------------------- specifications
\* Each component is checked from its own initial states, the others at rest.
InitTracker ==
  /\ TrackerInit
  /\ ResolverInitWith("")
  /\ DetectInitWith({})
  /\ CallerInit
  /\ UseVariantInit
  /\ WorkflowInit
  /\ LoadInit
  /\ ViewInit
  /\ LogInit
  /\ ContentInitWith("", "")

\* The browser has been here before, or not.
InitResolver ==
  /\ \E env \in EnvProjectUids : ResolverInitWith(env)
  /\ \E marker \in {{}, {"true"}} : DetectInitWith(marker)
  /\ CallerInit
  /\ UseVariantInit
  /\ WorkflowInit
  /\ LoadInit
  /\ ViewInit
  /\ TrackerInit
  /\ LogInit
  /\ ContentInitWith("", "")

InitLog ==
  /\ LogInit
  /\ DetectInitWith({})
  /\ CallerInit
  /\ UseVariantInit
  /\ WorkflowInit
  /\ LoadInit
  /\ ViewInit
  /\ TrackerInit
  /\ ResolverInitWith("")
  /\ ContentInitWith("", "")

\* The configuration is read once, when the module is loaded.
InitContent ==
  /\ \E key \in {"", "blt0123456789"} : \E token \in {"", "cs0123456789"} :
       ContentInitWith(key, token)
  /\ TrackerInit
  /\ ResolverInitWith("")
  /\ DetectInitWith({})
  /\ CallerInit
  /\ UseVariantInit
  /\ WorkflowInit
  /\ LoadInit
  /\ ViewInit
  /\ LogInit

InitCaller ==
  /\ ResolverInitWith("")
  /\ CallerInit
  /\ DetectInitWith({})
  /\ UseVariantInit
  /\ WorkflowInit
  /\ LoadInit
  /\ ViewInit
  /\ TrackerInit
  /\ LogInit
  /\ ContentInitWith("", "")

InitVariant ==
  /\ UseVariantInit
  /\ WorkflowInit
  /\ LoadInit
  /\ ViewInit
  /\ ResolverInitWith("")
  /\ CallerInit
  /\ DetectInitWith({})
  /\ TrackerInit
  /\ LogInit
  /\ ContentInitWith("", "")

InitWorkflow ==
  /\ WorkflowInit
  /\ LoadInit
  /\ ViewInit
  /\ TrackerInit
  /\ ResolverInitWith("")
  /\ DetectInitWith({})
  /\ CallerInit
  /\ UseVariantInit
  /\ LogInit
  /\ ContentInitWith("", "")

\* The visitor has been here before, or not.
InitLoad ==
  /\ LoadInit
  /\ \E marker \in {{}, {"true"}} : DetectInitWith(marker)
  /\ \E env \in EnvProjectUids : ResolverInitWith(env)
  /\ TrackerInit
  /\ CallerInit
  /\ UseVariantInit
  /\ WorkflowInit
  /\ ViewInit
  /\ LogInit
  /\ ContentInitWith("", "")

SpecTracker == InitTracker /\ [][TrackerNext]_vars

SpecResolver == InitResolver /\ [][ResolverNext]_vars

SpecLog == InitLog /\ [][LogNext]_vars

SpecContent == InitContent /\ [][ContentNext]_vars

SpecCaller == InitCaller /\ [][CallerNext]_vars

SpecWorkflow == InitWorkflow /\ [][WorkflowNext]_vars

SpecLoad == InitLoad /\ [][LoadNext]_vars

InitView ==
  /\ ViewInit
  /\ LoadInit
  /\ WorkflowInit
  /\ TrackerInit
  /\ ResolverInitWith("")
  /\ DetectInitWith({})
  /\ CallerInit
  /\ UseVariantInit
  /\ LogInit
  /\ ContentInitWith("", "")

SpecView == InitView /\ [][ViewNext]_vars

\* The continuation of an await runs once its promise has settled.
SpecVariant == InitVariant /\ [][VariantNext]_vars /\ WF_vars(UseVariantSettle)

\* ------------------------------------------------------------------ claims
\* Two objects that read the same: every property has the same value in both,
\* an absent property reading as undefined.
SameObject(x, y) ==
  \A f \in DOMAIN x \cup DOMAIN y :
    IF f \in DOMAIN x /\ f \in DOMAIN y
    THEN x[f] = y[f]
    ELSE f \in OptFields /\ Get(x, f) = Undefined /\ Get(y, f) = Undefined

SameSession(a, b) ==
  /\ a.sessionId = b.sessionId
  /\ a.startTime = b.startTime
  /\ a.pageViews = b.pageViews
  /\ Len(a.events) = Len(b.events)
  /\ \A i \in DOMAIN a.events : SameObject(a.events[i], b.events[i])

\* C1 as stated: totalEvents is the number of track* calls made on the tracker
\* and pageViews the number of its trackContentView calls.
C1_CallsOnTracker ==
  /\ getSessionStats.totalEvents = calls
  /\ getSessionStats.pageViews = viewCalls

\* C1 amended: the counts start from the session the tracker was constructed
\* with (empty when synthesized, the stored one when restored): totalEvents is
\* the restored number of events plus the track* calls made on the tracker,
\* pageViews the restored page views plus its trackContentView calls.
C1_CallsSinceRestore ==
  /\ getSessionStats.totalEvents = restored.events + calls
  /\ getSessionStats.pageViews = restored.pageViews + viewCalls

C1_Witness ==
  /\ restored.events = 1
  /\ restored.pageViews = 1
  /\ calls = 1
  /\ viewCalls = 0
  /\ getSessionStats.totalEvents = 2

\* The record in the per-tab slot reads the same as the in-memory session.
SlotMatchesSession ==
  /\ slot # {}
  /\ \A item \in slot : SameSession(JSONparse(item), session)

\* C10: when a track* call (or a wrapper of one) returns, the record in the
\* per-tab slot reads the same as the in-memory session: sessionId, startTime,
\* pageViews and every event.
C10_SlotEqualsSession == [][TrackStep => SlotMatchesSession']_vars

C10_Witness ==
  /\ Len(session.events) = 2
  /\ SlotMatchesSession
  /\ \E item \in slot : \E i \in DOMAIN session.events :
       /\ "variant" \in DOMAIN session.events[i]
       /\ session.events[i].variant = Undefined
       /\ "variant" \notin DOMAIN JSONparse(item).events[i]
  /\ \E i \in DOMAIN session.events :
       /\ "metadata" \in DOMAIN session.events[i]
       /\ session.events[i].metadata # Undefined

UserTypeReturning == "userType" \in DOMAIN userAttributes /\ userAttributes.userType = "returning"

LocationEU == "location" \in DOMAIN userAttributes /\ userAttributes.location = "EU"

\* C2: two getVariant calls for the same key made one right after the other
\* (so with the same attributes) return the same variant.
C2_SameVariantTwice ==
  (/\ prevCall.op = "getVariant"
   /\ lastCall.op = "getVariant"
   /\ prevCall.key = lastCall.key) => lastCall.ret = prevCall.ret

C2_Witness ==
  /\ prevCall.op = "getVariant"
  /\ lastCall.op = "getVariant"
  /\ prevCall.key = lastCall.key
  /\ ~prevCall.hit
  /\ lastCall.hit
  /\ lastCall.ret = "variant_eu"

\* C3 as stated: a getVariant call made while userType is "returning" returns
\* variant_returning, for any key.
C3_ReturningAlways ==
  (lastCall.op = "getVariant" /\ UserTypeReturning) => lastCall.ret = "variant_returning"

\* C3 amended: a getVariant call made while userType is "returning", for a key
\* not in the variant cache, returns variant_returning whatever the location
\* is; for a cached key it returns the cached variant.
C3_ReturningUncached ==
  (lastCall.op = "getVariant" /\ UserTypeReturning) =>
     /\ ~lastCall.hit => lastCall.ret = "variant_returning"
     /\ lastCall.hit => lastCall.ret = variantCache[lastCall.key]

C3_Witness ==
  /\ lastCall.op = "getVariant"
  /\ ~lastCall.hit
  /\ UserTypeReturning
  /\ LocationEU
  /\ lastCall.ret = "variant_returning"

\* C4: a getVariant call for a key not in the cache returns variant_eu when
\* userType is absent or not "returning" and location is "EU", variant_default
\* when neither rule matches, and never anything but the three variants.
C4_PriorityRule ==
  (lastCall.op = "getVariant" /\ ~lastCall.hit) =>
     /\ (~UserTypeReturning /\ LocationEU) => lastCall.ret = "variant_eu"
     /\ (~UserTypeReturning /\ ~LocationEU) => lastCall.ret = "variant_default"
     /\ lastCall.ret \in {"variant_returning", "variant_eu", "variant_default"}

C4_Witness ==
  /\ lastCall.op = "getVariant"
  /\ ~lastCall.hit
  /\ "userType" \in DOMAIN userAttributes
  /\ userAttributes.userType = "new"
  /\ LocationEU
  /\ lastCall.ret = "variant_eu"
  /\ prevCall.op = "getVariant"
  /\ prevCall.ret = "variant_default"

Min(a, b) == IF a < b THEN a ELSE b

\* C5: after n addLog calls on an empty log, getLogs() holds min(n, 50)
\* entries, the most recent first, and they are the most recent ones: the
\* entries dropped are the oldest n - 50.
C5_NewestFiftyKept ==
  /\ Len(getLogs) = Min(added, maxLogs)
  /\ \A i \in 1..Len(getLogs) : getLogs[i].id = <<"log", added - i + 1>>

C5_Witness ==
  /\ added = 60
  /\ Len(getLogs) = 50
  /\ getLogs[1].id = <<"log", 60>>
  /\ getLogs[50].id = <<"log", 11>>

\* The request of the latest settled call failed: a non-2xx response, or no
\* response at all.
FailedResponse(response) ==
  \/ response.kind = "network"
  \/ response.kind = "response" /\ ~ResponseOk(response)

UseEntriesSettled == settled.op = "settle" /\ settled.caller = "useEntries"

\* C6: when a fetch of useEntries is answered with a 500 response, data is
\* empty, error is non-null and loading is false.
C6_ErrorAfter500 ==
  (/\ UseEntriesSettled
   /\ settled.response.kind = "response"
   /\ settled.response.status = 500) =>
     /\ data = <<>>
     /\ error # {}
     /\ loading = FALSE

\* C7: a fetch of useEntries starts with loading true and no error; when it
\* is answered with {entries: E}, data is E, loading is false, and error is
\* not set while a fetch is under way or when it ends.
C7_DataOnSuccess ==
  /\ (settled.op = "start" /\ settled.caller = "useEntries") =>
        loading = TRUE /\ error = {}
  /\ (\E id \in DOMAIN pending : pending[id].caller = "useEntries") => error = {}
  /\ (/\ UseEntriesSettled
      /\ settled.response.kind = "response"
      /\ ResponseOk(settled.response)
      /\ "entries" \in DOMAIN settled.response.body) =>
        /\ data = settled.response.body.entries
        /\ loading = FALSE
        /\ error = {}

C7_Witness ==
  /\ UseEntriesSettled
  /\ settled.response.kind = "response"
  /\ settled.response.status = 200
  /\ "entries" \in DOMAIN settled.response.body
  /\ data = <<EntryA>>
  /\ data[1].uid = "a"
  /\ loading = FALSE
  /\ pending = <<>>

\* C8: on a non-2xx response or a network failure getEntries and queryEntries
\* return an empty collection, getEntryByUid, getEntryByUrl and
\* getHeroBannerByVariant return null, and none of them throws.
C8_EmptyOrNullOnFailure ==
  (settled.op = "settle" /\ FailedResponse(settled.response)) =>
     /\ settled.ret.kind # "throw"
     /\ settled.caller \in {"getEntries", "queryEntries"} =>
          settled.ret.kind = "list" /\ settled.ret.value = <<>>
     /\ settled.caller \in {"getEntryByUid", "getEntryByUrl", "getHeroBannerByVariant"} =>
          settled.ret.kind = "null"

C8_Witness ==
  /\ settled.op = "settle"
  /\ settled.caller = "getHeroBannerByVariant"
  /\ settled.response.kind = "response"
  /\ settled.response.status = 500
  /\ "entries" \in DOMAIN settled.response.body
  /\ settled.ret.kind = "null"

\* C9: with the API key or the delivery token missing no HTTP request is ever
\* issued, every call returns an empty collection or null without throwing,
\* and useEntries keeps its empty data and no error.
C9_NoRequestWithoutCredentials ==
  (apiKey = "" \/ deliveryToken = "") =>
     /\ httpRequests = 0
     /\ \A id \in DOMAIN pending : ~pending[id].http
     /\ settled.op = "settle" =>
          /\ settled.response.kind = "none"
          /\ \/ settled.ret.kind = "null"
             \/ settled.ret.kind = "list" /\ settled.ret.value = <<>>
     /\ data = <<>>
     /\ error = {}

C9_Witness ==
  /\ apiKey # ""
  /\ deliveryToken = ""
  /\ fetchSeq = 3
  /\ pending = <<>>
  /\ UseEntriesSettled
  /\ loading = FALSE
  /\ httpRequests = 0

\* The events of b start with the events of a, in the same order and with the
\* same content.
EventsPrefix(a, b) ==
  /\ Len(a.events) <= Len(b.events)
  /\ \A i \in DOMAIN a.events : b.events[i] = a.events[i]

\* C11: a tracker constructed while the per-tab slot holds a session restores
\* that record: it reads the same as the stored record and as the session of
\* the tracker before the reload (sessionId, startTime, pageViews, every
\* event). A track* call keeps sessionId and startTime and loses no event or
\* page view. The session is replaced by another one only by a construction
\* that found the slot empty.
C11_SessionSurvivesReload ==
  [][/\ (Reload /\ slot # {}) =>
          /\ SameSession(session', session)
          /\ \A item \in slot : SameSession(session', JSONparse(item))
          /\ slot' = slot
     /\ TrackStep =>
          /\ session'.sessionId = session.sessionId
          /\ session'.startTime = session.startTime
          /\ session'.pageViews >= session.pageViews
          /\ EventsPrefix(session, session')
     /\ ~SameSession(session', session) => (TrackStep \/ (Reload /\ slot = {}))
    ]_vars

C11_Witness ==
  /\ restored.events = 2
  /\ restored.pageViews = 1
  /\ calls = 0
  /\ eventQueue = <<>>
  /\ session.startTime = 0
  /\ now = 1
  /\ SlotMatchesSession

\* A queue entry without its type tag: { type: '...', ...event } -> event.
Untag(entry) == [f \in DOMAIN entry \ {"type"} |-> entry[f]]

\* C12: a flush tick with a non-empty queue passes on exactly the events
\* tracked since the previous flush, in tracking order, and leaves the queue
\* empty; a flush tick with an empty queue changes nothing; in both cases the
\* session record and the per-tab slot are unchanged.
C12_FlushTickEffect ==
  [][FlushTick =>
       /\ eventQueue # <<>> =>
            /\ Len(handedOver') = calls - flushedCalls
            /\ \A i \in DOMAIN handedOver' :
                 Untag(handedOver'[i]) = session.events[restored.events + flushedCalls + i]
            /\ eventQueue' = <<>>
       /\ eventQueue = <<>> => UNCHANGED vars
       /\ session' = session
       /\ slot' = slot
    ]_vars

C12_Witness ==
  /\ timerActive
  /\ calls = 2
  /\ flushedCalls = 2
  /\ eventQueue = <<>>
  /\ Len(handedOver) = 1
  /\ handedOver[1].type = "personalization"
  /\ Len(session.events) = 2

\* C13: destroy() cancels the interval timer and flushes once: right after it
\* the pending queue is empty and the timer is off. On that tracker instance
\* (until a reload constructs another one) the timer stays off, so no flush
\* tick runs: a flush tick needs the timer, and with the timer off only
\* another destroy() takes anything out of the queue or passes a batch on.
C13_DestroyStopsFlushing ==
  [][/\ Destroy => (eventQueue' = <<>> /\ ~timerActive')
     /\ FlushTick => timerActive
     /\ (~timerActive /\ ~Reload) => ~timerActive'
     /\ (~timerActive /\ ~Reload /\ ~Destroy) =>
          /\ Len(eventQueue') >= Len(eventQueue)
          /\ handedOver' = handedOver
    ]_vars

C13_Witness ==
  /\ ~timerActive
  /\ calls = 2
  /\ flushedCalls = 1
  /\ Len(handedOver) = 1
  /\ Len(eventQueue) = 1

\* C20: the events of the session are in the order of the track* calls: a
\* call puts its event (stamped with the time of the call) behind every event
\* already recorded, and leaves the recorded events as they were, in place.
C20_EventsInCallOrder ==
  [][TrackStep =>
       /\ Len(session'.events) = Len(session.events) + 1
       /\ EventsPrefix(session, session')
       /\ session'.events[Len(session'.events)].timestamp = now
       /\ \A i, j \in DOMAIN session'.events :
            i < j => session'.events[i].timestamp <= session'.events[j].timestamp
    ]_vars

C20_Witness ==
  /\ calls = 2
  /\ Len(session.events) = 2
  /\ "action" \in DOMAIN session.events[1]
  /\ session.events[1].timestamp = 0
  /\ "contentType" \in DOMAIN session.events[2]
  /\ session.events[2].timestamp = 1

\* C14: once the resolver is initialized, an init call, with or without a
\* config, leaves the project identifier, the user attributes and the variant
\* cache as they were, and the resolver initialized.
C14_InitIdempotent ==
  [][(initialized /\ PersonalizeInitCall) =>
       /\ initialized'
       /\ projectUid' = projectUid
       /\ userAttributes' = userAttributes
       /\ variantCache' = variantCache
    ]_vars

C14_Witness ==
  /\ lastCall.op = "init"
  /\ prevCall.op = "init"
  /\ initialized
  /\ projectUid = "demo_project"
  /\ UserTypeReturning
  /\ variantCache = [hero_experience |-> "variant_returning"]

\* C15: after setUserAttributes(attrs) every key of attrs maps to its value in
\* attrs, every stored key not in attrs keeps its value, no key is removed (the
\* keys are the stored ones and those of attrs), and the variant cache is
\* unchanged.
C15_ShallowMerge ==
  [][\A attributes \in AttributeInputs :
       SetUserAttributes(attributes) =>
         /\ DOMAIN userAttributes' = DOMAIN userAttributes \cup DOMAIN attributes
         /\ \A k \in DOMAIN attributes : userAttributes'[k] = attributes[k]
         /\ \A k \in DOMAIN userAttributes \ DOMAIN attributes :
              userAttributes'[k] = userAttributes[k]
         /\ variantCache' = variantCache
    ]_vars

C15_Witness ==
  /\ lastCall.op = "setUserAttributes"
  /\ prevCall.op = "setUserAttributes"
  /\ userAttributes = [userType |-> "returning", location |-> "US"]
  /\ variantCache = [cta_experience |-> "variant_eu"]

\* C19: a key that has a value in the variant cache keeps that value over any
\* getVariant, setUserAttributes, init or triggerEvent call, whatever the
\* attributes have become; clearCache empties the cache; and a getVariant call
\* for a key that is not in the cache (as after clearCache) evaluates the rule
\* on the attributes of that moment, returns the result and caches it.
C19_CacheSticky ==
  [][/\ \A key \in DOMAIN variantCache :
          \/ ClearCache
          \/ (key \in DOMAIN variantCache' /\ variantCache'[key] = variantCache[key])
     /\ ClearCache => variantCache' = <<>>
     /\ \A key \in ExperienceKeys :
          (GetVariant(key) /\ key \notin DOMAIN variantCache) =>
             /\ lastCall'.ret = simulateVariantSelection(userAttributes)
             /\ variantCache'[key] = lastCall'.ret
    ]_vars

C19_Witness ==
  /\ lastCall.op = "getVariant"
  /\ lastCall.key = "hero_experience"
  /\ ~lastCall.hit
  /\ lastCall.ret = "variant_returning"
  /\ prevCall.op = "clearCache"
  /\ variantCache = [hero_experience |-> "variant_returning"]

\* C18: a detectUserAttributes call made while the browser has no visit marker
\* reports userType "new", every call made after another one reports
\* "returning", and every call leaves the marker set.
C18_NewOnceThenReturning ==
  [][/\ DetectUserAttributes =>
          /\ visitMarker = {} => detected'[Len(detected')] = "new"
          /\ visitMarker' = {"true"}
     /\ \A i \in DOMAIN detected' : i > 1 => detected'[i] = "returning"
     /\ detected' # <<>> => visitMarker' = {"true"}
    ]_vars

C18_Witness ==
  /\ detected = <<"new", "returning", "returning">>
  /\ visitMarker = {"true"}

\* C16 as stated: nothing a caller does to the value getUserAttributes
\* returned (adding, overwriting or deleting a key, changing an array-valued
\* attribute in place) changes the stored attributes as they read, or what a
\* later getVariant returns.
C16_DefensiveCopy ==
  [][MutateReturned =>
       /\ storedAttributes' = storedAttributes
       /\ \A key \in ExperienceKeys :
            getVariantResult(variantCache', userAttributes', key)
              = getVariantResult(variantCache, userAttributes, key)
    ]_vars

\* C17: when the resolution awaited by useVariant throws, the hook ends with
\* variant "default" and loading false, and no error leaves the effect; and
\* whenever a resolution is awaited, loading becomes false.
C17_FallbackAndLoadingEnds ==
  /\ [](variantSettled = "rejected" =>
          (hookVariant = {"default"} /\ ~variantLoading /\ ~unhandled))
  /\ [](variantSettled = "resolved" => (hookVariant # {} /\ ~variantLoading))
  /\ (DOMAIN variantPending # {}) ~> ~variantLoading

C17_Witness ==
  /\ variantSettled = "rejected"
  /\ hookVariant = {"default"}
  /\ ~variantLoading
  /\ variantEffects = 2
  /\ DOMAIN variantPending = {}
  /\ variantCache = [hero_experience |-> "variant_returning"]

\* C21: every addLog and every clearLogs calls each listener subscribed at
\* that moment, and nobody else, with the list as the call left it (at most
\* maxLogs entries); nothing else notifies anybody. Calling a disposer takes
\* the listener out, so it is not among those notified afterwards; subscribing
\* a listener that is already subscribed leaves the listeners as they were, so
\* it is still called once per change.
C21_NotifyEachListenerOnce ==
  [][/\ (SimulateAutomationEvent \/ ClearLogs) =>
          /\ lastNotified'.to = listeners
          /\ lastNotified'.logs = logs'
          /\ Len(lastNotified'.logs) <= maxLogs
     /\ ~(SimulateAutomationEvent \/ ClearLogs) => lastNotified' = lastNotified
     /\ \A l \in Listeners :
          /\ Unsubscribe(l) => l \notin listeners'
          /\ (Subscribe(l) /\ l \in listeners) => listeners' = listeners
          /\ (l \in listeners' /\ l \notin listeners) => Subscribe(l)
    ]_vars

C21_Witness ==
  /\ listeners = {"onLogsB"}
  /\ disposers = {"onLogsA", "onLogsB"}
  /\ lastNotified.to = {"onLogsB"}
  /\ Len(lastNotified.logs) = maxLogs
  /\ added = maxLogs + 1
  /\ lastNotified.logs = logs

\* C27 as stated: every recorded event is passed on by a flush once and only
\* once. At every state the pending queue is the events this tracker recorded
\* since its latest flush, in order, and an event leaves the pending queue
\* only in the batch a flush passes on, so none is dropped before it has been
\* passed on.
C27_HandedExactlyOnce ==
  [][/\ Len(eventQueue') = calls' - flushedCalls'
     /\ \A i \in DOMAIN eventQueue' :
          Untag(eventQueue'[i]) = session'.events[restored'.events + flushedCalls' + i]
     /\ Len(eventQueue') < Len(eventQueue) => handedOver' = eventQueue
    ]_vars

\* C26 as stated: while a fetch started by useEntries (the one of the mount or
\* a refetch) awaits its response, loading is true.
C26_LoadingWhileInFlight ==
  (\E id \in DOMAIN pending : pending[id].caller = "useEntries") => loading

\* C24 as stated: at most one interval timer of the workflow runner is active
\* at any time.
C24_OneTimer == Cardinality(DOMAIN intervals) <= 1

\* C25 as stated: when the timer of a run that no reset interrupted ends the
\* run (isRunning goes back to false), every workflow step is completed.
C25_AllCompletedAtEnd ==
  [][(IntervalTick /\ intervalSeq = 1 /\ isRunning /\ ~isRunning') =>
       \A i \in DOMAIN steps' : steps'[i] = "completed"
    ]_vars

\* C22 as stated: when the load of the application has finished for a visitor
\* whose marker was already set, the variant cached for hero_experience is
\* variant_returning.
C22_HeroVariantFollowsDetection ==
  [][(~LoadComplete /\ LoadComplete' /\ detected'[1] = "returning") =>
       /\ "hero_experience" \in DOMAIN variantCache'
       /\ variantCache'["hero_experience"] = "variant_returning"
    ]_vars

\* C23 as stated: when the load of the application has finished in a browser
\* that had no marker, the stored userType is "new".
C23_FirstLoadIsNew ==
  [][(~LoadComplete /\ LoadComplete' /\ detected'[1] = "new") =>
       /\ "userType" \in DOMAIN userAttributes'
       /\ userAttributes'.userType = "new"
    ]_vars

\* C28 as stated: a content view recorded by PersonalizedHero carries the uid
\* and title of the banner displayed, never the placeholders 'loading' and
\* 'Loading...'.
C28_HeroViewNotPlaceholder ==
  [][(UseContentTrackingEffect(heroTrackingArgs) /\ viewCalls' > viewCalls) =>
       LET event == session'.events[Len(session'.events)] IN
       /\ event.entryUid # "loading"
       /\ event.title # "Loading..."
       /\ currentBanner # {}
    ]_vars

\* C29: useContentTracking records at most one content view per mounted
\* instance however its arguments change, and none while entryUid is empty.
C29_AtMostOneViewPerInstance ==
  [][\A args \in TrackingArgs \cup {heroTrackingArgs} :
       UseContentTrackingEffect(args) =>
         /\ viewCalls' - visibilityViews' <= 1
         /\ (tracked \/ args.entryUid = "") => viewCalls' = viewCalls
         /\ viewCalls' > viewCalls =>
              session'.events[Len(session'.events)].entryUid = args.entryUid
    ]_vars

\* One view is recorded, and the effect has since run with another entryUid
\* without recording again.
C29_Witness ==
  /\ tracked
  /\ viewCalls - visibilityViews = 1
  /\ lastDeps # {}
  /\ \E i \in DOMAIN session.events :
       /\ "entryUid" \in DOMAIN session.events[i]
       /\ \A args \in lastDeps : session.events[i].entryUid # args.entryUid

\* C30: the callback of createVisibilityTracker records one content view on
\* the first invocation that carries an intersecting entry, however many of
\* its entries intersect, and none otherwise.
C30_VisibilityTrackedOnce ==
  [][\A entries \in EntryBatches :
       VisibilityCallback(entries) =>
         /\ visibilityViews' <= 1
         /\ visibilityViews' - visibilityViews =
              (IF ~hasTracked /\ (\E i \in DOMAIN entries : entries[i]) THEN 1 ELSE 0)
         /\ viewCalls' - viewCalls = visibilityViews' - visibilityViews
    ]_vars

\* An invocation with several intersecting entries has recorded one view.
C30_Witness ==
  /\ hasTracked
  /\ visibilityViews = 1
  /\ Len(lastEntries) > 1
  /\ \A i \in DOMAIN lastEntries : lastEntries[i]

====
